---- MODULE Spec2Model ----
(***************************************************************************)
(* Model of the tweet-composer agent graph (js/src/agent/index.ts): the    *)
(* state schema GraphAnnotation, the four nodes, the two routers and the   *)
(* topology built by buildGraph, driven by the graph executor and the      *)
(* Shared Value Store as the specification describes them.                 *)
(***************************************************************************)
EXTENDS Integers, Sequences, FiniteSets, TLC

VARIABLES
    store,      \* Shared Value Store: partition key -> userRules value
    store0,     \* the store as it was before any run started (history)
    config,     \* run -> config.configurable of the run (never assigned after Init)
    init0,      \* run -> the caller-supplied initial state (history)
    state,      \* run -> transient state (messages, contentGenerated, rules)
    pc,         \* run -> START, a node name, END, ABORTED or CANCELLED
    inflight,   \* run -> TRUE while the node at pc awaits its model call
    error,      \* run -> the error surfaced to the caller, "none" if none
    executed,   \* run -> the nodes whose computation was invoked, in order
    modelCalls, \* run -> number of model collaborator invocations
    reads,      \* run -> the partition keys the run read from the store, in order
    writes,     \* the store writes performed, in order: [run, key, value]
    log,        \* run -> the updates its nodes returned: [node, update, merged]
    routerSaw,  \* run -> the states its routers were evaluated on, in order
    systemPrompt \* run -> the system prompt callModel passed to the model

vars == <<store, store0, config, init0, state, pc, inflight, error, executed,
          modelCalls, reads, writes, log, routerSaw, systemPrompt>>

(***************************************************************************)
(* Bounds and value sets                                                   *)
(***************************************************************************)
MaxInitMsgs == 1
MaxUpdates == 2

Runs == {"r1", "r2"}
Keys == {"a1", "a2"}
InitMsgs == {"h1", "h2"}
Responses == {"ai1", "ai2"}

NoValue == [x \in {} |-> x]
V1 == [styleRules |-> <<"be concise">>, contentRules |-> <<>>]
V2 == [styleRules |-> <<"s2">>, contentRules |-> <<"c2">>]
V3 == [styleRules |-> <<"s3">>, contentRules |-> <<"c3">>]
StoreValues == {NoValue, V1, V2}
InsightResults == {V2, V3}

START == "START"
END == "END"
ABORTED == "ABORTED"
CANCELLED == "CANCELLED"
Terminal == {END, ABORTED, CANCELLED}

BoundedSeqs(S, n) == UNION {[1..k -> S] : k \in 0..n}

(***************************************************************************)
(* State schema and run configuration                                      *)
(***************************************************************************)
\* Variant: messages declared as a plain Annotation, which replaces.
PolicyMessagesReplaced ==
    [messages |-> "replace", userRules |-> "shared",
     contentGenerated |-> "replace", rules |-> "replace"]

\* GraphAnnotation: the declared fields and the merge policy of each.
\* messages comes from MessagesAnnotation.spec, userRules is a SharedValue,
\* contentGenerated and rules are plain Annotation<T>() fields.
Policy ==
    [messages |-> "append", userRules |-> "shared",
     contentGenerated |-> "replace", rules |-> "replace"]

Declared == DOMAIN Policy

\* Variant: the shared field keyed by one fixed partition.
PartitionKeyFixed(cfg) == "a1"

\* SharedValue.on("assistant_id"): the partition key of the shared field.
PartitionKey(cfg) == cfg.assistant_id

\* GraphConfig: the optional routing flags of config.configurable.
FlagNames == {"hasAcceptedText", "onlyGetRules"}
FlagSettings == UNION {[S -> BOOLEAN] : S \in SUBSET FlagNames}

MkConfig(flags, key) ==
    [x \in DOMAIN flags \cup {"assistant_id"} |->
        IF x = "assistant_id" THEN key ELSE flags[x]]

\* GraphConfig: the optional systemRules string.
SystemRulesSettings == {NoValue, [systemRules |-> "custom system rules"]}

Configs ==
    {MkConfig(f @@ sr, k) :
        f \in FlagSettings, sr \in SystemRulesSettings, k \in Keys}

\* Caller-supplied initial states: messages always present (the schema's
\* default is the empty list), contentGenerated optional.
MkState(msgs, cg) ==
    [x \in {"messages"} \cup DOMAIN cg |->
        IF x = "messages" THEN msgs ELSE cg[x]]

InitStates ==
    {MkState(m, cg) : m \in BoundedSeqs(InitMsgs, MaxInitMsgs),
                      cg \in UNION {[S -> BOOLEAN] : S \in SUBSET {"contentGenerated"}}}

\* JavaScript truthiness of an optional boolean field.
Truthy(rec, f) == f \in DOMAIN rec /\ rec[f]

(***************************************************************************)
(* Routers                                                                 *)
(***************************************************************************)
\* Variant: the accepted-text flag consulted before the only-get-rules flag.
shouldGenerateInsightsAcceptedFirst(_state, cfg) ==
    LET flags == [k \in FlagNames |-> IF k \in DOMAIN cfg THEN cfg[k] ELSE FALSE]
    IN  IF flags.hasAcceptedText THEN "generateInsights"
        ELSE IF flags.onlyGetRules THEN "getRules"
        ELSE "callModel"

shouldGenerateInsights(_state, cfg) ==
    LET flags == [k \in FlagNames |-> IF k \in DOMAIN cfg THEN cfg[k] ELSE FALSE]
    IN  IF flags.onlyGetRules THEN "getRules"
        ELSE IF flags.hasAcceptedText THEN "generateInsights"
        ELSE "callModel"

\* Variant: the edge tests whether contentGenerated is set, not its value.
shouldCheckContentGenerationIfSet(s) ==
    IF "contentGenerated" \in DOMAIN s THEN END ELSE "wasContentGenerated"

\* Variant: the edge names a node that buildGraph never registered.
shouldCheckContentGenerationUnregistered(s) ==
    IF Truthy(s, "contentGenerated") THEN END ELSE "checkContentGenerated"

shouldCheckContentGeneration(s) ==
    IF Truthy(s, "contentGenerated") THEN END ELSE "wasContentGenerated"

(***************************************************************************)
(* Nodes.  A node computation receives the state view and the outcome of   *)
(* its model call ([ok |-> TRUE, value |-> v] or [ok |-> FALSE]) and either *)
(* returns a partial update or throws.                                     *)
(***************************************************************************)
\* Prompts are sequences of text pieces; a placeholder is one piece.
DEFAULT_SYSTEM_RULES_STRING == <<"default system rules">>
DEFAULT_RULES_STRING == <<"*no rules have been set yet*">>

RULES_PROMPT ==
    <<"The user has defined two sets of rules.",
      "<style_rules>", "{styleRules}", "</style_rules>",
      "<content_rules>", "{contentRules}", "</content_rules>">>

SYSTEM_PROMPT ==
    <<"You are a helpful assistant", "<system_rules>", "{systemRules}",
      "</system_rules>", "{rulesPrompt}">>

\* String.prototype.replace with a string pattern: the first occurrence of
\* the pattern is replaced, and the result is a new string.
RECURSIVE Replace(_, _, _)
Replace(str, pattern, replacement) ==
    IF str = <<>> THEN <<>>
    ELSE IF Head(str) = pattern THEN replacement \o Tail(str)
         ELSE <<Head(str)>> \o Replace(Tail(str), pattern, replacement)

\* rules || DEFAULT_RULES_STRING, for a rendered rule list that is undefined
\* (here empty) when the list has no entries.
OrDefault(rules) == IF rules # <<>> THEN rules ELSE DEFAULT_RULES_STRING

Threw == [threw |-> TRUE]
Returned(u) == [threw |-> FALSE, update |-> u]

Ok(v) == [ok |-> TRUE, value |-> v]
Failed == [ok |-> FALSE]

\* Variant: the node catches the failed call and answers with a fallback.
callModelCatching(view, outcome) ==
    IF outcome.ok THEN Returned([messages |-> <<outcome.value>>])
    ELSE Returned([messages |-> <<"fallback">>])

\* Variant: the node also marks the content as generated.
callModelSetsGenerated(view, outcome) ==
    IF outcome.ok
    THEN Returned([messages |-> <<outcome.value>>, contentGenerated |-> TRUE])
    ELSE Threw

callModel(view, outcome) ==
    IF outcome.ok THEN Returned([messages |-> <<outcome.value>>]) ELSE Threw

generateInsights(view, outcome) ==
    IF outcome.ok
    THEN Returned([userRules |-> outcome.value, userAcceptedText |-> FALSE])
    ELSE Threw

wasContentGenerated(view, outcome) ==
    IF outcome.ok THEN Returned(outcome.value) ELSE Threw

\* Variant: the node echoes the transient rules field, not the shared one.
getRulesFromState(view) ==
    [rules |-> IF "rules" \in DOMAIN view THEN view.rules ELSE NoValue]

\* Variant: getRules also hands the rules back as the shared field.
getRulesEchoShared(view) ==
    [rules |-> view.userRules, userRules |-> view.userRules]

getRules(view) == [rules |-> view.userRules]

(***************************************************************************)
(* Executor: state view, merge, edges                                      *)
(***************************************************************************)
\* The state a node sees: the transient fields plus the shared field read
\* from the store under the run's partition key.
View(s, cfg, st) ==
    [x \in DOMAIN s \cup {"userRules"} |->
        IF x = "userRules" THEN st[PartitionKey(cfg)] ELSE s[x]]

\* Variant: undeclared fields of an update are dropped silently.
UnknownFieldsIgnored(u) == {}

UnknownFields(u) == DOMAIN u \ Declared

\* Variant: a replace field keeps the value it already has.
MergeStateKeepsFirst(s, u) ==
    [x \in DOMAIN s \cup {f \in DOMAIN u \cap Declared : Policy[f] # "shared"} |->
        IF x \in DOMAIN u \cap Declared
        THEN IF Policy[x] = "append"
             THEN (IF x \in DOMAIN s THEN s[x] ELSE <<>>) \o u[x]
             ELSE IF x \in DOMAIN s THEN s[x] ELSE u[x]
        ELSE s[x]]

\* Variant: the merged state is rebuilt from the update, so a replace field
\* the update does not name is lost.
MergeStateDropsAbsent(s, u) ==
    [x \in {"messages"} \cup {f \in DOMAIN u \cap Declared : Policy[f] # "shared"} |->
        IF x \in DOMAIN u \cap Declared
        THEN IF Policy[x] = "append"
             THEN (IF x \in DOMAIN s THEN s[x] ELSE <<>>) \o u[x]
             ELSE u[x]
        ELSE s[x]]

MergeState(s, u) ==
    [x \in DOMAIN s \cup {f \in DOMAIN u \cap Declared : Policy[f] # "shared"} |->
        IF x \in DOMAIN u \cap Declared
        THEN IF Policy[x] = "append"
             THEN (IF x \in DOMAIN s THEN s[x] ELSE <<>>) \o u[x]
             ELSE u[x]
        ELSE s[x]]

WritesShared(u) == \E f \in DOMAIN u \cap Declared : Policy[f] = "shared"

MergeStore(st, key, u) ==
    IF WritesShared(u) THEN [st EXCEPT ![key] = u.userRules] ELSE st

\* buildGraph: the edge out of each node.
NextTarget(node, s) ==
    IF node = "callModel" THEN shouldCheckContentGeneration(s) ELSE END

\* merge(currentState, partialUpdate) as the executor applies it to run r:
\* an update naming an undeclared field is rejected whole with
\* UnknownFieldError; otherwise every field present is merged under its
\* policy and a shared field is forwarded to the store under the run's key.
Merge(r, node, u) ==
    IF UnknownFields(u) # {}
    THEN /\ log' = [log EXCEPT ![r] =
                 Append(@, [node |-> node, update |-> u, merged |-> FALSE])]
         /\ UNCHANGED <<state, store, writes>>
    ELSE LET key == PartitionKey(config[r])
         IN  /\ state' = [state EXCEPT ![r] = MergeState(@, u)]
             /\ store' = MergeStore(store, key, u)
             /\ writes' = IF WritesShared(u)
                          THEN Append(writes, [run |-> r, key |-> key,
                                               value |-> u.userRules])
                          ELSE writes
             /\ log' = [log EXCEPT ![r] =
                     Append(@, [node |-> node, update |-> u, merged |-> TRUE])]

\* buildGraph: the registered nodes, and the nodes whose outgoing edge is
\* conditional.
Nodes == {"callModel", "generateInsights", "wasContentGenerated", "getRules"}
Conditional(node) == node = "callModel"

\* A transition to the target a router or an edge names: a target that is
\* neither a registered node nor END aborts the run with InvalidRouteError.
Route(r, target) ==
    IF target \in Nodes \cup {END}
    THEN /\ pc' = [pc EXCEPT ![r] = target]
         /\ UNCHANGED error
    ELSE /\ pc' = [pc EXCEPT ![r] = ABORTED]
         /\ error' = [error EXCEPT ![r] = "InvalidRouteError"]

\* Variant: the router is handed the state as it was before the merge.
RouterInputPreMerge(pre, post) == pre

\* The state a conditional edge is evaluated on after a node: the state
\* with the node's update merged.
RouterInput(pre, post) == post

\* One node completion: a thrown error aborts the run and nothing is merged;
\* a rejected update aborts it too; otherwise the update is merged and the
\* outgoing edge is followed, a conditional one on the post-merge state.
Complete(r, node, result) ==
    /\ inflight' = [inflight EXCEPT ![r] = FALSE]
    /\ IF result.threw
       THEN /\ pc' = [pc EXCEPT ![r] = ABORTED]
            /\ error' = [error EXCEPT ![r] = "CollaboratorFailure"]
            /\ UNCHANGED <<state, store, writes, log, routerSaw>>
       ELSE /\ Merge(r, node, result.update)
            /\ IF UnknownFields(result.update) # {}
               THEN /\ pc' = [pc EXCEPT ![r] = ABORTED]
                    /\ error' = [error EXCEPT ![r] = "UnknownFieldError"]
                    /\ UNCHANGED routerSaw
               ELSE LET seen == RouterInput(state[r],
                                            MergeState(state[r], result.update))
                    IN  /\ routerSaw' = IF Conditional(node)
                                        THEN [routerSaw EXCEPT ![r] = Append(@, seen)]
                                        ELSE routerSaw
                        /\ Route(r, NextTarget(node, seen))

\* The nodes whose computation reads state.userRules; wasContentGenerated
\* takes only the messages from its state.
ReadsUserRules(node) == node \in {"callModel", "generateInsights", "getRules"}

\* Entering a node: the executor invokes the node's computation on the state
\* view; the shared field is fetched from the store when the node reads it.
Enter(r, node) ==
    /\ executed' = [executed EXCEPT ![r] = Append(@, node)]
    /\ reads' = [reads EXCEPT ![r] =
            IF ReadsUserRules(node) THEN Append(@, PartitionKey(config[r]))
            ELSE @]

\* A node that calls the model runs up to its await and suspends there.
Suspend(r, node) ==
    /\ pc[r] = node
    /\ ~inflight[r]
    /\ Enter(r, node)
    /\ inflight' = [inflight EXCEPT ![r] = TRUE]
    /\ modelCalls' = [modelCalls EXCEPT ![r] = @ + 1]
    /\ UNCHANGED <<store, store0, config, init0, state, pc, error, writes, log,
                   routerSaw>>

\* callModel up to its await: the system prompt it builds.  With rules, the
\* rules section replaces {rulesPrompt}; without, the result of the
\* replacement is not assigned and the prompt stays as it was.
callModelPrompt(view, cfg) ==
    LET ur == view.userRules
        styleRules == IF "styleRules" \in DOMAIN ur THEN ur.styleRules ELSE <<>>
        contentRules ==
            IF "contentRules" \in DOMAIN ur THEN ur.contentRules ELSE <<>>
        withSystemRules ==
            Replace(SYSTEM_PROMPT, "{systemRules}",
                    IF "systemRules" \in DOMAIN cfg THEN <<cfg.systemRules>>
                    ELSE DEFAULT_SYSTEM_RULES_STRING)
    IN  IF styleRules # <<>> \/ contentRules # <<>>
        THEN Replace(Replace(Replace(withSystemRules,
                 "{rulesPrompt}", RULES_PROMPT),
                 "{styleRules}", OrDefault(styleRules)),
                 "{contentRules}", OrDefault(contentRules))
        ELSE withSystemRules

Resume(r, node, result) ==
    /\ pc[r] = node
    /\ inflight[r]
    /\ Complete(r, node, result)
    /\ UNCHANGED <<store0, config, init0, executed, modelCalls, reads,
                   systemPrompt>>

(***************************************************************************)
(* Actions                                                                 *)
(***************************************************************************)
\* addConditionalEdges(START, shouldGenerateInsights)
Start(r) ==
    /\ pc[r] = START
    /\ routerSaw' = [routerSaw EXCEPT ![r] = Append(@, state[r])]
    /\ Route(r, shouldGenerateInsights(state[r], config[r]))
    /\ UNCHANGED <<store, store0, config, init0, state, inflight,
                   executed, modelCalls, reads, writes, log, systemPrompt>>

\* Variant: the system message is pushed onto state.messages in place
\* before the model is awaited.
CallModelInvokeInPlace(r) ==
    /\ pc[r] = "callModel"
    /\ ~inflight[r]
    /\ Enter(r, "callModel")
    /\ inflight' = [inflight EXCEPT ![r] = TRUE]
    /\ modelCalls' = [modelCalls EXCEPT ![r] = @ + 1]
    /\ state' = [state EXCEPT ![r]["messages"] = <<"system">> \o @]
    /\ systemPrompt' = [systemPrompt EXCEPT ![r] =
            callModelPrompt(View(state[r], config[r], store), config[r])]
    /\ UNCHANGED <<store, store0, config, init0, pc, error, writes, log,
                   routerSaw>>

CallModelInvoke(r) ==
    /\ pc[r] = "callModel"
    /\ Suspend(r, "callModel")
    /\ systemPrompt' = [systemPrompt EXCEPT ![r] =
            callModelPrompt(View(state[r], config[r], store), config[r])]

CallModelReturns(r) ==
    /\ pc[r] = "callModel"
    /\ \E resp \in Responses :
        Resume(r, "callModel",
               callModel(View(state[r], config[r], store), Ok(resp)))

GenerateInsightsInvoke(r) ==
    /\ pc[r] = "generateInsights"
    /\ Suspend(r, "generateInsights")
    /\ UNCHANGED systemPrompt

\* Variant: completing generateInsights clears hasAcceptedText in the config.
GenerateInsightsReturnsResetsFlag(r) ==
    /\ pc[r] = "generateInsights"
    /\ inflight[r]
    /\ \E res \in InsightResults :
        Complete(r, "generateInsights",
                 generateInsights(View(state[r], config[r], store), Ok(res)))
    /\ config' = [config EXCEPT ![r] =
            [x \in DOMAIN @ |-> IF x = "hasAcceptedText" THEN FALSE ELSE @[x]]]
    /\ UNCHANGED <<store0, init0, executed, modelCalls, reads, systemPrompt>>

GenerateInsightsReturns(r) ==
    /\ pc[r] = "generateInsights"
    /\ \E res \in InsightResults :
        Resume(r, "generateInsights",
               generateInsights(View(state[r], config[r], store), Ok(res)))

WasContentGeneratedInvoke(r) ==
    /\ pc[r] = "wasContentGenerated"
    /\ Suspend(r, "wasContentGenerated")
    /\ UNCHANGED systemPrompt

WasContentGeneratedReturns(r) ==
    /\ pc[r] = "wasContentGenerated"
    /\ \E b \in BOOLEAN :
        Resume(r, "wasContentGenerated",
               wasContentGenerated(View(state[r], config[r], store),
                                   Ok([contentGenerated |-> b])))

\* getRules is synchronous and calls no collaborator.
GetRules(r) ==
    /\ pc[r] = "getRules"
    /\ Enter(r, "getRules")
    /\ Complete(r, "getRules",
                Returned(getRules(View(state[r], config[r], store))))
    /\ UNCHANGED <<store0, config, init0, modelCalls, systemPrompt>>

\* The model call of the suspended node raises.
NodeOnFailure(node, view) ==
    CASE node = "callModel" -> callModel(view, Failed)
      [] node = "generateInsights" -> generateInsights(view, Failed)
      [] node = "wasContentGenerated" -> wasContentGenerated(view, Failed)

CollaboratorFails(r) ==
    /\ inflight[r]
    /\ Resume(r, pc[r], NodeOnFailure(pc[r], View(state[r], config[r], store)))

\* The caller cancels the run while a model call is in flight.
Cancel(r) ==
    /\ inflight[r]
    /\ pc' = [pc EXCEPT ![r] = CANCELLED]
    /\ inflight' = [inflight EXCEPT ![r] = FALSE]
    /\ error' = [error EXCEPT ![r] = "Cancelled"]
    /\ UNCHANGED <<store, store0, config, init0, state, executed, modelCalls,
                   reads, writes, log, routerSaw, systemPrompt>>

Next ==
    \E r \in Runs :
        \/ Start(r)
        \/ CallModelInvoke(r)
        \/ CallModelReturns(r)
        \/ GenerateInsightsInvoke(r)
        \/ GenerateInsightsReturns(r)
        \/ WasContentGeneratedInvoke(r)
        \/ WasContentGeneratedReturns(r)
        \/ GetRules(r)
        \/ CollaboratorFails(r)
        \/ Cancel(r)

(***************************************************************************)
(* Initial states                                                          *)
(***************************************************************************)
InitRest ==
    /\ store \in [Keys -> StoreValues]
    /\ store0 = store
    /\ init0 = state
    /\ pc = [r \in Runs |-> START]
    /\ inflight = [r \in Runs |-> FALSE]
    /\ error = [r \in Runs |-> "none"]
    /\ executed = [r \in Runs |-> <<>>]
    /\ modelCalls = [r \in Runs |-> 0]
    /\ reads = [r \in Runs |-> <<>>]
    /\ writes = <<>>
    /\ log = [r \in Runs |-> <<>>]
    /\ routerSaw = [r \in Runs |-> <<>>]
    /\ systemPrompt = [r \in Runs |-> <<>>]

\* Run r1 is invoked with any configuration and initial state; run r2 is an
\* accepted-text invocation on partition a1 running alongside it.
CompanionConfig ==
    MkConfig([hasAcceptedText |-> TRUE, systemRules |-> "custom system rules"],
             "a1")
CompanionState == MkState(<<"h2">>, NoValue)

Init ==
    /\ config \in {[r \in Runs |-> IF r = "r1" THEN c ELSE CompanionConfig] :
                      c \in Configs}
    /\ state \in {[r \in Runs |-> IF r = "r1" THEN s ELSE CompanionState] :
                      s \in InitStates}
    /\ InitRest

Spec == Init /\ [][Next]_vars

\* Concurrent invocations: every run takes one of the three routes on either
\* partition, each with its own conversation.
RouteFlags ==
    {NoValue, [hasAcceptedText |-> TRUE], [onlyGetRules |-> TRUE]}
ConcConfigs == {MkConfig(f, k) : f \in RouteFlags, k \in Keys}
OwnConversation(r) == MkState(<<IF r = "r1" THEN "h1" ELSE "h2">>, NoValue)

InitConc ==
    /\ config \in [Runs -> ConcConfigs]
    /\ state = [r \in Runs |-> OwnConversation(r)]
    /\ InitRest

SpecConc == InitConc /\ [][Next]_vars

\* The merge contract exercised directly: any sequence of at most MaxUpdates
\* partial updates is merged into the states of runs that have not started.
Updates ==
    {NoValue,
     [messages |-> <<>>],
     [messages |-> <<"ai1">>],
     [messages |-> <<"ai2", "ai1">>],
     [contentGenerated |-> TRUE],
     [contentGenerated |-> FALSE],
     [rules |-> V1],
     [rules |-> V2],
     [userRules |-> V3],
     [messages |-> <<"ai2">>, contentGenerated |-> TRUE],
     [userRules |-> V2, userAcceptedText |-> FALSE]}

MergeCount == Len(log["r1"]) + Len(log["r2"])

MergeStep(r) ==
    /\ pc[r] = START
    /\ MergeCount < MaxUpdates
    /\ \E u \in Updates :
        /\ Merge(r, "merge", u)
        /\ pc' = [pc EXCEPT ![r] =
                IF UnknownFields(u) # {} THEN ABORTED ELSE START]
        /\ error' = [error EXCEPT ![r] =
                IF UnknownFields(u) # {} THEN "UnknownFieldError" ELSE @]
    /\ UNCHANGED <<store0, config, init0, inflight, executed, modelCalls, reads,
                   routerSaw, systemPrompt>>

NextMerge == \E r \in Runs : MergeStep(r)

\* The states the harness starts from: no or one initial message,
\* contentGenerated and rules absent or supplied by the caller.
MergeInitStates ==
    {MkState(m, o) :
        m \in {<<>>, <<"h1">>},
        o \in {NoValue, [rules |-> V3], [contentGenerated |-> FALSE, rules |-> V3]}}

InitMerge ==
    /\ config = [r \in Runs |-> MkConfig(NoValue, IF r = "r1" THEN "a1" ELSE "a2")]
    /\ state \in {[r \in Runs |-> IF r = "r1" THEN s ELSE CompanionState] :
                      s \in MergeInitStates}
    /\ InitRest

SpecMerge == InitMerge /\ [][NextMerge]_vars

(***************************************************************************)
(* Auxiliary definitions for the properties                                *)
(***************************************************************************)
KeyOf(r) == config[r].assistant_id
Flag(r, f) == f \in DOMAIN config[r] /\ config[r][f]

\* The first node the initial router selected for run r.
Routed(r) == IF executed[r] # <<>> THEN executed[r][1] ELSE pc[r]

\* The updates of run r that were merged, in completion order.
Applied(r) == SelectSeq(log[r], LAMBDA e : e.merged)

RECURSIVE Concat(_, _)
Concat(entries, f) ==
    IF entries = <<>> THEN <<>>
    ELSE IF f \in DOMAIN Head(entries).update
         THEN Head(entries).update[f] \o Concat(Tail(entries), f)
         ELSE Concat(Tail(entries), f)

Touching(entries, f) == SelectSeq(entries, LAMBDA e : f \in DOMAIN e.update)

\* What the transient state of run r must be if it holds the run's own
\* initial values and the merged updates of its own nodes, and nothing else.
OwnState(r) ==
    LET ap == Applied(r)
        repl == {f \in {"contentGenerated", "rules"} :
                    f \in DOMAIN init0[r] \/ Touching(ap, f) # <<>>}
    IN  [x \in {"messages"} \cup repl |->
            IF x = "messages" THEN init0[r].messages \o Concat(ap, "messages")
            ELSE IF Touching(ap, x) # <<>>
                 THEN Touching(ap, x)[Len(Touching(ap, x))].update[x]
                 ELSE init0[r][x]]

WritesTo(k) == SelectSeq(writes, LAMBDA w : w.key = k)
WritesBy(r) == SelectSeq(writes, LAMBDA w : w.run = r)

\* The store value of partition k as the completed writes determine it.
Committed(k) ==
    IF WritesTo(k) = <<>> THEN store0[k] ELSE WritesTo(k)[Len(WritesTo(k))].value

(***************************************************************************)
(* Properties                                                              *)
(***************************************************************************)

\* C1: a run configured with onlyGetRules = true on a partition that already
\* holds a userRules value V executes no node other than getRules, invokes
\* no model collaborator, is never aborted, and ends at END with rules = V.
C1_OnlyGetRulesReadsStore ==
    \A r \in Runs :
        (Flag(r, "onlyGetRules") /\ store0[KeyOf(r)] # NoValue) =>
            /\ modelCalls[r] = 0
            /\ \A i \in 1..Len(executed[r]) : executed[r][i] = "getRules"
            /\ pc[r] \in {START, "getRules", END}
            /\ pc[r] = END =>
                /\ executed[r] = <<"getRules">>
                /\ WritesTo(KeyOf(r)) = <<>> =>
                    /\ "rules" \in DOMAIN state[r]
                    /\ state[r].rules = store0[KeyOf(r)]

C1_Witness ==
    \E r \in Runs :
        /\ Flag(r, "onlyGetRules")
        /\ store0[KeyOf(r)] = V1
        /\ pc[r] = END
        /\ "rules" \in DOMAIN state[r]
        /\ state[r].rules = V1

\* C2: a run with hasAcceptedText = true and onlyGetRules not set, on a
\* partition whose prior store value is empty, whose generateInsights node
\* has returned its update, ends at END with that update's userRules value
\* readable from the store under the run's partition key.
C2_AcceptedTextWritesRules ==
    \A r \in Runs :
        (/\ Flag(r, "hasAcceptedText")
         /\ "onlyGetRules" \notin DOMAIN config[r]
         /\ store0[KeyOf(r)] = NoValue
         /\ log[r] # <<>>) =>
            /\ pc[r] = END
            /\ executed[r] = <<"generateInsights">>
            /\ WritesBy(r) # <<>>
            /\ WritesBy(r)[1].value = log[r][1].update.userRules
            /\ Len(WritesTo(KeyOf(r))) = 1 =>
                  store[KeyOf(r)] = log[r][1].update.userRules

\* C3: with neither routing flag set the initial router selects callModel,
\* and when callModel's update has been merged and contentGenerated is not
\* true in the resulting state, the edge out of callModel leads to
\* wasContentGenerated, not to END.
C3_DefaultRouteChecksContent ==
    [][\A r \in Runs :
        (~Flag(r, "hasAcceptedText") /\ ~Flag(r, "onlyGetRules")) =>
            /\ (pc[r] = START /\ pc'[r] # START) => pc'[r] = "callModel"
            /\ (/\ pc[r] = "callModel"
                /\ Len(log'[r]) = Len(log[r]) + 1
                /\ log'[r][Len(log'[r])].merged
                /\ ~Truthy(state'[r], "contentGenerated"))
               => pc'[r] = "wasContentGenerated"]_vars

C3_Witness ==
    \E r \in Runs :
        /\ ~Flag(r, "hasAcceptedText") /\ ~Flag(r, "onlyGetRules")
        /\ pc[r] = "wasContentGenerated"
        /\ Len(log[r]) = 1 /\ log[r][1].node = "callModel" /\ log[r][1].merged
        /\ "contentGenerated" \in DOMAIN state[r]
        /\ ~state[r].contentGenerated

\* C4: the initial router's choice is determined by the configuration alone:
\* getRules when onlyGetRules is true (whatever hasAcceptedText is), else
\* generateInsights when hasAcceptedText is true, else callModel, a missing
\* flag counting as false; runs with the same flags are routed alike
\* whatever their states.
C4_InitialRouteFromConfig ==
    /\ \A r \in Runs :
        pc[r] # START =>
            Routed(r) = IF Flag(r, "onlyGetRules") THEN "getRules"
                        ELSE IF Flag(r, "hasAcceptedText") THEN "generateInsights"
                        ELSE "callModel"
    /\ \A r1, r2 \in Runs :
        (/\ pc[r1] # START /\ pc[r2] # START
         /\ Flag(r1, "onlyGetRules") = Flag(r2, "onlyGetRules")
         /\ Flag(r1, "hasAcceptedText") = Flag(r2, "hasAcceptedText"))
        => Routed(r1) = Routed(r2)

C4_Witness ==
    \E r1, r2 \in Runs :
        /\ Flag(r1, "onlyGetRules") /\ Flag(r1, "hasAcceptedText")
        /\ Routed(r1) = "getRules"
        /\ r1 # r2
        /\ Flag(r2, "hasAcceptedText") /\ ~Flag(r2, "onlyGetRules")
        /\ Routed(r2) = "generateInsights"

\* C5: when a node returns an update naming a field the schema does not
\* declare, the run is aborted with UnknownFieldError and nothing of that
\* update is merged: the transient state is unchanged and the store is not
\* written.
SchemaFields == {"messages", "userRules", "contentGenerated", "rules"}

C5_UnknownFieldAborts ==
    [][\A r \in Runs :
        (/\ Len(log'[r]) = Len(log[r]) + 1
         /\ ~(DOMAIN log'[r][Len(log'[r])].update \subseteq SchemaFields))
        => /\ ~log'[r][Len(log'[r])].merged
           /\ pc'[r] = ABORTED
           /\ error'[r] = "UnknownFieldError"
           /\ state' = state
           /\ store' = store
           /\ writes' = writes]_vars

C5_Witness ==
    \E r \in Runs :
        /\ pc[r] = ABORTED
        /\ error[r] = "UnknownFieldError"
        /\ executed[r] = <<"generateInsights">>
        /\ Len(log[r]) = 1
        /\ "userAcceptedText" \in DOMAIN log[r][1].update
        /\ "userRules" \in DOMAIN log[r][1].update
        /\ store0[KeyOf(r)] # log[r][1].update.userRules
        /\ store[KeyOf(r)] = store0[KeyOf(r)]
        /\ state[r] = init0[r]

\* C6: when the model call of a node raises, the run is aborted with the
\* collaborator's error, nothing of the failed node is merged (state, store
\* and the merged updates stay as the completed nodes left them), and an
\* aborted run executes no further node and never re-runs the failed one.
C6_NodeFailureAborts ==
    [][\A r \in Runs :
        /\ CollaboratorFails(r) =>
            /\ pc'[r] = ABORTED
            /\ error'[r] = "CollaboratorFailure"
            /\ state' = state
            /\ store' = store
            /\ writes' = writes
            /\ log' = log
            /\ executed' = executed
        /\ pc[r] = ABORTED =>
            /\ pc'[r] = ABORTED
            /\ error'[r] = error[r]
            /\ state'[r] = state[r]
            /\ executed'[r] = executed[r]
            /\ modelCalls'[r] = modelCalls[r]
            /\ log'[r] = log[r]]_vars

C6_Witness ==
    \E r \in Runs :
        /\ pc[r] = ABORTED
        /\ error[r] = "CollaboratorFailure"
        /\ executed[r] = <<"callModel", "wasContentGenerated">>
        /\ Len(log[r]) = 1
        /\ state[r].messages = init0[r].messages \o log[r][1].update.messages

\* C7: a run cancelled while a model call is in flight holds nothing of the
\* in-flight node: its transient state is its initial state with the updates
\* of its completed nodes merged, the store holds only completed writes, and
\* nothing of the run changes after the cancellation.
C7_CancelMergesNothing ==
    /\ [](\A r \in Runs :
            pc[r] = CANCELLED =>
                /\ state[r] = OwnState(r)
                /\ Applied(r) = log[r]
                /\ Len(executed[r]) = Len(log[r]) + 1
                /\ Len(WritesBy(r)) = Len(Touching(log[r], "userRules"))
                /\ \A k \in Keys : store[k] = Committed(k))
    /\ [][\A r \in Runs :
            pc[r] = CANCELLED =>
                /\ pc'[r] = CANCELLED
                /\ state'[r] = state[r]
                /\ executed'[r] = executed[r]
                /\ modelCalls'[r] = modelCalls[r]
                /\ log'[r] = log[r]
                /\ Len(WritesBy(r))' = Len(WritesBy(r))]_vars

C7_Witness ==
    \E r1, r2 \in Runs :
        /\ pc[r1] = CANCELLED
        /\ executed[r1] = <<"callModel", "wasContentGenerated">>
        /\ Len(log[r1]) = 1
        /\ Len(state[r1].messages) = Len(init0[r1].messages) + 1
        /\ pc[r2] = CANCELLED
        /\ executed[r2] = <<"generateInsights">>
        /\ log[r2] = <<>>
        /\ store = store0

\* C8: concurrent runs interfere only through the store at their own
\* partition key: the transient state of a run is its own initial state with
\* its own nodes' merged updates, a run reads and writes the store under its
\* own key only, and the value of each partition is determined by the writes
\* made under that key.
C8_RunsIsolated ==
    /\ \A r \in Runs :
        /\ state[r] = OwnState(r)
        /\ \A i \in 1..Len(reads[r]) : reads[r][i] = KeyOf(r)
        /\ "rules" \in DOMAIN state[r] =>
              state[r].rules \in
                  {store0[KeyOf(r)]} \cup
                  {WritesTo(KeyOf(r))[i].value : i \in 1..Len(WritesTo(KeyOf(r)))}
    /\ \A i \in 1..Len(writes) : writes[i].key = KeyOf(writes[i].run)
    /\ \A k \in Keys : store[k] = Committed(k)

C8_Witness ==
    \E r1, r2 \in Runs :
        /\ KeyOf(r1) # KeyOf(r2)
        /\ store0[KeyOf(r1)] # store0[KeyOf(r2)]
        /\ pc[r1] = END /\ pc[r2] = END
        /\ executed[r1] = <<"getRules">>
        /\ state[r1].rules = store0[KeyOf(r1)]
        /\ executed[r2] = <<"callModel", "wasContentGenerated">>
        /\ Len(state[r2].messages) = 2
        /\ state[r1].messages = init0[r1].messages

\* C9: when two or more runs on one partition key have executed
\* generateInsights and all of them have finished, the store value of that
\* partition is the whole userRules value of the write that completed last.
C9_LastWriteWins ==
    \A k \in Keys :
        LET gi == {r \in Runs : /\ KeyOf(r) = k
                                /\ log[r] # <<>>
                                /\ log[r][1].node = "generateInsights"}
        IN  (Cardinality(gi) >= 2 /\ \A r \in gi : pc[r] \in Terminal) =>
                /\ WritesTo(k) # <<>>
                /\ store[k] = WritesTo(k)[Len(WritesTo(k))].value
                /\ \E r \in gi : store[k] = log[r][1].update.userRules

\* C10: the messages of a run are the initial messages followed by the items
\* of every merged messages update, update by update in arrival order and
\* item by item in the order within each update.
C10_MessagesConcatenated ==
    \A r \in Runs :
        state[r].messages = init0[r].messages \o Concat(Applied(r), "messages")

C10_Witness ==
    \E r \in Runs :
        /\ Len(init0[r].messages) >= 1
        /\ Len(Applied(r)) = 2
        /\ Applied(r)[1].update = [messages |-> <<"ai2", "ai1">>]
        /\ Applied(r)[2].update = [messages |-> <<"ai1">>]
        /\ state[r].messages = init0[r].messages \o <<"ai2", "ai1", "ai1">>

\* C11: after any sequence of merged updates, a replace field
\* (contentGenerated, rules) that some update named holds the value of the
\* last update that named it, whatever it held before.
ReplaceFields == {"contentGenerated", "rules"}

C11_ReplaceKeepsLast ==
    \A r \in Runs : \A f \in ReplaceFields :
        LET t == Touching(Applied(r), f)
        IN  t # <<>> => /\ f \in DOMAIN state[r]
                        /\ state[r][f] = t[Len(t)].update[f]

C11_Witness ==
    \E r \in Runs :
        /\ "rules" \in DOMAIN init0[r] /\ init0[r].rules = V3
        /\ Len(Applied(r)) = 2
        /\ Applied(r)[1].update = [rules |-> V1]
        /\ Applied(r)[2].update = [rules |-> V2]
        /\ state[r].rules = V2

\* C12: a merge changes only the fields its update names: every other field
\* of the run's state keeps its value, no field appears that the update does
\* not name, the store changes only when the update names the shared field,
\* other runs' states are untouched, and the empty update changes nothing.
C12_MergeFrame ==
    [][\A r \in Runs :
        Len(log'[r]) = Len(log[r]) + 1 =>
            LET u == log'[r][Len(log'[r])].update
            IN  /\ \A f \in DOMAIN state[r] \ DOMAIN u :
                    f \in DOMAIN state'[r] /\ state'[r][f] = state[r][f]
                /\ DOMAIN state'[r] \subseteq DOMAIN state[r] \cup DOMAIN u
                /\ \A q \in Runs \ {r} : state'[q] = state[q]
                /\ "userRules" \notin DOMAIN u => store' = store
                /\ \A k \in Keys \ {KeyOf(r)} : store'[k] = store[k]
                /\ u = NoValue => (state' = state /\ store' = store)]_vars

C12_Witness ==
    \E r \in Runs :
        /\ "contentGenerated" \in DOMAIN init0[r]
        /\ "rules" \in DOMAIN init0[r]
        /\ Len(init0[r].messages) = 1
        /\ Len(Applied(r)) = 2
        /\ Applied(r)[1].update = [rules |-> V1]
        /\ Applied(r)[2].update = NoValue
        /\ state[r].contentGenerated = init0[r].contentGenerated
        /\ state[r].messages = init0[r].messages
        /\ state[r].rules = V1
        /\ store = store0

\* C13: the router after callModel is evaluated on the state with callModel's
\* update applied: the state it is handed holds the run's initial messages
\* followed by the messages callModel returned, and every other field as the
\* run had it, never the state from before the merge.
C13_RouterSeesPostMerge ==
    \A r \in Runs :
        /\ Len(routerSaw[r]) <= 2
        /\ Len(routerSaw[r]) >= 1 => routerSaw[r][1] = init0[r]
        /\ Len(routerSaw[r]) = 2 =>
            /\ log[r] # <<>>
            /\ log[r][1].node = "callModel"
            /\ log[r][1].merged
            /\ "messages" \in DOMAIN log[r][1].update
            /\ routerSaw[r][2].messages =
                   init0[r].messages \o log[r][1].update.messages
            /\ DOMAIN routerSaw[r][2] = DOMAIN init0[r]
            /\ \A f \in DOMAIN init0[r] \ {"messages"} :
                   routerSaw[r][2][f] = init0[r][f]

C13_Witness ==
    \E r \in Runs :
        /\ pc[r] = "wasContentGenerated"
        /\ Len(routerSaw[r]) = 2
        /\ Len(init0[r].messages) = 1
        /\ Len(routerSaw[r][2].messages) = 2

\* C14: every run executes one of the four node sequences of the graph, no
\* node twice, and stops short of END only when a node computation did not
\* return (its collaborator failed or the run was cancelled): a run all of
\* whose node computations returned is never aborted.
C14_RunsReachEnd ==
    \A r \in Runs :
        /\ executed[r] \in {<<>>, <<"getRules">>, <<"generateInsights">>,
                            <<"callModel">>,
                            <<"callModel", "wasContentGenerated">>}
        /\ pc[r] \in {ABORTED, CANCELLED} =>
               error[r] \in {"CollaboratorFailure", "Cancelled"}

\* C15: every router result names a registered node or END.  The initial
\* router returns getRules, generateInsights or callModel, the router after
\* callModel returns END or wasContentGenerated, on every state and config
\* they are evaluated on, and no run raises InvalidRouteError.
C15_RoutesValid ==
    \A r \in Runs :
        /\ error[r] # "InvalidRouteError"
        /\ Len(routerSaw[r]) >= 1 =>
               shouldGenerateInsights(routerSaw[r][1], config[r])
                   \in {"getRules", "generateInsights", "callModel"} \cap Nodes
        /\ Len(routerSaw[r]) >= 2 =>
               shouldCheckContentGeneration(routerSaw[r][2])
                   \in {END, "wasContentGenerated"} \cap (Nodes \cup {END})

C15_Witness ==
    \E r \in Runs :
        /\ Len(routerSaw[r]) = 2
        /\ shouldCheckContentGeneration(routerSaw[r][2]) = "wasContentGenerated"
        /\ executed[r] = <<"callModel", "wasContentGenerated">>
        /\ pc[r] = END
        /\ error[r] = "none"

\* C16: a run reads the store at most once, under its own partition key,
\* and writes it at most once; a write is the merge of a completed
\* generateInsights update, so a run that has executed only getRules,
\* callModel or wasContentGenerated has written nothing, and every partition
\* holds its initial value unless a write to it completed.
C16_StoreReadOnceWrittenOnce ==
    /\ \A r \in Runs :
        /\ Len(reads[r]) <= 1
        /\ executed[r] # <<>> => reads[r] = <<KeyOf(r)>>
        /\ Len(WritesBy(r)) <= 1
        /\ WritesBy(r) # <<>> =>
               \E i \in 1..Len(log[r]) :
                   /\ log[r][i].node = "generateInsights"
                   /\ log[r][i].merged
        /\ (\A i \in 1..Len(executed[r]) : executed[r][i] # "generateInsights")
               => WritesBy(r) = <<>>
    /\ \A k \in Keys : store[k] = Committed(k)
    /\ (\A r \in Runs : \A i \in 1..Len(executed[r]) :
            executed[r][i] # "generateInsights") => store = store0

C16_Witness ==
    \E r \in Runs :
        /\ executed[r] = <<"callModel", "wasContentGenerated">>
        /\ pc[r] = END
        /\ reads[r] = <<KeyOf(r)>>
        /\ WritesBy(r) = <<>>
        /\ store0[KeyOf(r)] = V1
        /\ store = store0

\* C17: no step of a run changes a configuration: the flags, systemRules
\* and the partition key keep the values the caller supplied.  A run whose
\* configuration has hasAcceptedText set (and onlyGetRules not set) is
\* routed to generateInsights, whatever runs with that configuration have
\* executed before it.
C17_ConfigNeverMutated ==
    [][/\ config' = config
       /\ \A r \in Runs :
            (pc'[r] # START /\ Flag(r, "hasAcceptedText")
                            /\ ~Flag(r, "onlyGetRules"))
                => Routed(r)' = "generateInsights"]_vars

C17_Witness ==
    \E r, q \in Runs :
        /\ r # q
        /\ config[r] = config[q]
        /\ "systemRules" \in DOMAIN config[r]
        /\ Flag(r, "hasAcceptedText")
        /\ executed[r] = <<"generateInsights">>
        /\ pc[r] \in Terminal
        /\ log[r] # <<>>
        /\ executed[q] = <<>>
        /\ pc[q] = "generateInsights"

\* C18: no system prompt that callModel passes to the model contains the
\* placeholder {rulesPrompt}, in particular not when userRules has neither
\* style rules nor content rules.
C18_NoPlaceholderSent ==
    \A r \in Runs : \A i \in 1..Len(systemPrompt[r]) :
        systemPrompt[r][i] # "{rulesPrompt}"

\* C19: every update a node of the graph returns names only fields of the
\* state schema (messages, userRules, contentGenerated, rules), and no run
\* ends with UnknownFieldError.
C19_UpdatesDeclared ==
    \A r \in Runs :
        /\ error[r] # "UnknownFieldError"
        /\ \A i \in 1..Len(log[r]) : DOMAIN log[r][i].update \subseteq SchemaFields

\* The nodes run r has executed.
Executed(r) == {executed[r][i] : i \in 1..Len(executed[r])}

====
